---- MODULE Spec2Model ----
(***************************************************************************)
(* Model of circuitbreaker.py: the CircuitBreaker state machine           *)
(* (closed / open / half_open), its failure counter and recovery timer,   *)
(* as driven by CircuitBreaker.call, CircuitBreaker.open and              *)
(* CircuitBreaker.close.                                                   *)
(*                                                                         *)
(* Time is an integer number of seconds.  The clock is the system's: it   *)
(* advances between any two lines of the program.                         *)
(*                                                                         *)
(* Every thread executes one operation at a time.  pc[t] is the source    *)
(* line the thread is about to execute, op[t] the public method it is in. *)
(***************************************************************************)
EXTENDS Integers, FiniteSets, Sequences, TLC

(* ---------------------------- bounds ---------------------------------- *)
NThreads == 2
NBreakers == 2
MaxTime == 11
MaxThreshold == 3
MaxTimeout == 2
MaxFailures == 4
\* the recovery timeout of the worked scenario: threshold 3, timeout 10
ScenarioTimeout == 10

Threads == 1 .. NThreads
Breakers == 1 .. NBreakers
\* the single thread of the sequential specification
SeqThreads == {1}
\* the two callers of the concurrent specification
ConcThreads == {1, 2}
\* the breaker the callers of these specifications guard their function with
Guarded == {1}

Thresholds == 0 .. MaxThreshold
Timeouts == (0 .. MaxTimeout) \cup {ScenarioTimeout}

(* ------------------------ program constants --------------------------- *)
STATE_CLOSED == "closed"
STATE_OPEN == "open"
STATE_HALF_OPEN == "half_open"

DefaultThreshold == 5
DefaultTimeout == 30
DefaultExpected == "Exception"

(* ------------------- the caller-supplied function --------------------- *)
\* values the wrapped function may return
Values == {"v1", "v2"}
\* exception classes the wrapped function may raise
Raised == {"IOError", "ValueError"}
\* classes a breaker may be configured to expect
Expectable == {"Exception", "IOError"}

\* isinstance(e, cls) for the classes above: everything derives from Exception
isinstance(e, cls) == cls = "Exception" \/ e = cls

None == [kind |-> "none", val |-> "none"]
Returned(v) == [kind |-> "return", val |-> v]
Raises(e) == [kind |-> "raise", val |-> e]
CircuitBreakerError == Raises("CircuitBreakerError")

(* --------------------------- the registry ----------------------------- *)
\* names of wrapped functions
Names == {"f", "g"}
\* name=None
NoName == "None"
\* keys of CircuitBreakerMonitor.circuit_breakers
Keys == Names \cup {NoName}
\* what dict.get answers for a key that is not there
Absent == 0

VARIABLES
    now,                 \* datetime.utcnow(), in seconds
    state,               \* b._state
    failure_count,       \* b._failure_count
    opened,              \* b._opened
    failure_threshold,   \* b._failure_threshold
    recover_timeout,     \* b._recover_timeout
    expected_exception,  \* b._expected_exception
    pc,                  \* where thread t is
    op,                  \* the public method thread t entered last
    cur,                 \* self of that method
    tmp,                 \* a value loaded and not yet used: the count of
                         \* `self._failure_count += 1`, the time utcnow() gave
                         \* open(), the open_until that line 55 computed
    outcome,             \* what the wrapped function produced in this call
    result,              \* what the caller of the method got
    invoked,             \* whether this call ran the wrapped function
    gate,                \* what the breaker looked like when call() checked it
    streak,              \* classified failures since the last success/close
    name,                \* b._name
    circuit_breakers,    \* CircuitBreakerMonitor.circuit_breakers
    last_registered,     \* per key, the breaker registered under it last
    message,             \* what str() of the error thread t got produced
    force_opened,        \* whether open() was ever called on b from outside
    began                \* the clock when t began the bookkeeping it is in
                         \* (its function ended, or it entered open()/close())

bvars == <<state, failure_count, opened>>
cvars == <<failure_threshold, recover_timeout, expected_exception>>
tvars == <<pc, op, cur, tmp, outcome, result, invoked, gate, began>>
xvars == <<name, circuit_breakers, last_registered, message, force_opened>>
vars == <<now, state, failure_count, opened, failure_threshold,
          recover_timeout, expected_exception, pc, op, cur, tmp, outcome,
          result, invoked, gate, streak, name, circuit_breakers,
          last_registered, message, force_opened, began>>

(* --------------------------- properties ------------------------------- *)
open_until(b) == opened[b] + recover_timeout[b]

open_remaining(b) == open_until(b) - now

\* (mutation) the recovery timeout is not consulted
recovering_ignores_timeout(b) == state[b] = STATE_OPEN

\* (mutation) the timeout must be strictly exceeded
recovering_strict(b) == state[b] = STATE_OPEN /\ open_remaining(b) < 0

\* __is_closed: the branch that moves OPEN to HALF_OPEN
recovering(b) == state[b] = STATE_OPEN /\ open_remaining(b) <= 0

\* (mutation) an open breaker is moved to half_open whatever the time
is_closed_state_eager(b) ==
    IF state[b] = STATE_OPEN THEN STATE_HALF_OPEN ELSE state[b]

\* __is_closed: the state it leaves behind
is_closed_state(b) == IF recovering(b) THEN STATE_HALF_OPEN ELSE state[b]

\* __is_closed: its return value
is_closed(b) == IF recovering(b) THEN TRUE ELSE state[b] = STATE_CLOSED

\* (mutation) a bare `except Exception`
handles_everything(b, e) == TRUE

\* `except self._expected_exception`
handles(b, e) == isinstance(e, expected_exception[b])

\* how the breaker looks to a caller arriving now
Observed(b) ==
    IF state[b] = STATE_OPEN
    THEN IF now < opened[b] + recover_timeout[b]
         THEN "open_waiting" ELSE "open_elapsed"
    ELSE state[b]

(* ------------------------------ init ---------------------------------- *)
TypeOK ==
    /\ now \in 0 .. MaxTime
    /\ state \in [Breakers -> {STATE_CLOSED, STATE_OPEN, STATE_HALF_OPEN}]
    /\ failure_count \in [Breakers -> 0 .. MaxFailures]
    /\ opened \in [Breakers -> 0 .. MaxTime]
    /\ pc \in [Threads -> {"idle", "gate_opened", "gate_clock",
                           "half_opening", "gate_return",
                           "rejected", "running", "failure",
                           "failure_store", "failure_check", "open",
                           "open_clock", "open_stamp", "reraise", "close", "close_count",
                           "return"}]
    /\ op \in [Threads -> {"none", "call", "open", "close"}]
    /\ cur \in [Threads -> Breakers]

\* CircuitBreaker.__init__, for the guarded breaker with every configuration
\* and for the others with the defaults
Init ==
    /\ now = 0
    /\ state = [b \in Breakers |-> STATE_CLOSED]
    /\ failure_count = [b \in Breakers |-> 0]
    /\ opened = [b \in Breakers |-> 0]
    /\ \E th \in Thresholds, rt \in Timeouts, ex \in Expectable :
         /\ failure_threshold =
              [b \in Breakers |-> IF b \in Guarded THEN th ELSE DefaultThreshold]
         /\ recover_timeout =
              [b \in Breakers |-> IF b \in Guarded THEN rt ELSE DefaultTimeout]
         /\ expected_exception =
              [b \in Breakers |-> IF b \in Guarded THEN ex ELSE DefaultExpected]
    /\ pc = [t \in Threads |-> "idle"]
    /\ op = [t \in Threads |-> "none"]
    /\ cur = [t \in Threads |-> 1]
    /\ tmp = [t \in Threads |-> 0]
    /\ outcome = [t \in Threads |-> None]
    /\ result = [t \in Threads |-> None]
    /\ invoked = [t \in Threads |-> FALSE]
    /\ gate = [t \in Threads |-> "none"]
    /\ streak = [b \in Breakers |-> 0]
    /\ name = [b \in Breakers |-> NoName]
    /\ circuit_breakers = [k \in Keys |-> Absent]
    /\ last_registered = [k \in Keys |-> Absent]
    /\ message = [t \in Threads |-> None]
    /\ force_opened = [b \in Breakers |-> FALSE]
    /\ began = [t \in Threads |-> 0]

(* ----------------------------- actions -------------------------------- *)
\* the clock: datetime.utcnow() moves on, wherever the threads are
Tick ==
    /\ now < MaxTime
    /\ now' = now + 1
    /\ UNCHANGED <<xvars, bvars, cvars, tvars, streak>>

\* call(): `if not self.__is_closed(): raise ...`, else func is entered
Call(t, b) ==
    /\ pc[t] = "idle"
    /\ state' = [state EXCEPT ![b] = is_closed_state(b)]
    /\ pc' = [pc EXCEPT ![t] = IF is_closed(b) THEN "running" ELSE "rejected"]
    /\ invoked' = [invoked EXCEPT ![t] = is_closed(b)]
    /\ op' = [op EXCEPT ![t] = "call"]
    /\ cur' = [cur EXCEPT ![t] = b]
    /\ gate' = [gate EXCEPT ![t] = Observed(b)]
    /\ outcome' = [outcome EXCEPT ![t] = None]
    /\ result' = [result EXCEPT ![t] = None]
    /\ UNCHANGED <<xvars, began, now, failure_count, opened, cvars, tmp, streak>>

\* __is_closed line by line, for callers whose checks interleave.
\* Line 55, first operand: the read of `self._state == STATE_OPEN`
GateTest(t, b) ==
    /\ pc[t] = "idle"
    /\ pc' = [pc EXCEPT ![t] =
                IF state[b] = STATE_OPEN THEN "gate_opened" ELSE "gate_return"]
    /\ gate' = [gate EXCEPT ![t] = "none"]
    /\ invoked' = [invoked EXCEPT ![t] = FALSE]
    /\ op' = [op EXCEPT ![t] = "call"]
    /\ cur' = [cur EXCEPT ![t] = b]
    /\ outcome' = [outcome EXCEPT ![t] = None]
    /\ result' = [result EXCEPT ![t] = None]
    /\ UNCHANGED <<xvars, began, now, bvars, cvars, tmp, streak>>

\* line 55, second operand: open_remaining reads self.open_until, that is
\* `self._opened + timedelta(seconds=self._recover_timeout)`
GateOpened(t) ==
    /\ pc[t] = "gate_opened"
    /\ tmp' = [tmp EXCEPT ![t] = open_until(cur[t])]
    /\ pc' = [pc EXCEPT ![t] = "gate_clock"]
    /\ UNCHANGED <<xvars, began, now, bvars, cvars, op, cur, outcome, result,
                   invoked, gate, streak>>

\* line 55, second operand: open_remaining subtracts datetime.utcnow() and
\* the test `<= 0` decides; gate records "open_elapsed" when the branch is
\* taken
GateClock(t) ==
    /\ pc[t] = "gate_clock"
    /\ pc' = [pc EXCEPT ![t] =
                IF tmp[t] - now <= 0 THEN "half_opening" ELSE "gate_return"]
    /\ gate' = [gate EXCEPT ![t] =
                  IF tmp[t] - now <= 0 THEN "open_elapsed" ELSE "none"]
    /\ tmp' = [tmp EXCEPT ![t] = 0]
    /\ UNCHANGED <<xvars, began, now, bvars, cvars, op, cur, outcome, result,
                   invoked, streak>>

\* lines 56-57: `self._state = STATE_HALF_OPEN; return True`, func is entered
GateHalfOpen(t) ==
    /\ pc[t] = "half_opening"
    /\ state' = [state EXCEPT ![cur[t]] = STATE_HALF_OPEN]
    /\ pc' = [pc EXCEPT ![t] = "running"]
    /\ invoked' = [invoked EXCEPT ![t] = TRUE]
    /\ UNCHANGED <<xvars, began, now, failure_count, opened, cvars, op, cur, tmp,
                   outcome, result, gate, streak>>

\* what line 59 reads: the state itself, an open breaker leaving the
\* caller waiting
StateRead(b) ==
    IF state[b] = STATE_OPEN THEN "open_waiting" ELSE state[b]

\* line 59: `return self._state == STATE_CLOSED`, then call() enters func
\* or goes to its raise; gate records the state that was read
GateReturn(t) ==
    /\ pc[t] = "gate_return"
    /\ pc' = [pc EXCEPT ![t] =
                IF state[cur[t]] = STATE_CLOSED THEN "running" ELSE "rejected"]
    /\ invoked' = [invoked EXCEPT ![t] = state[cur[t]] = STATE_CLOSED]
    /\ gate' = [gate EXCEPT ![t] = StateRead(cur[t])]
    /\ UNCHANGED <<xvars, began, now, bvars, cvars, op, cur, tmp, outcome, result,
                   streak>>

\* call(): `raise CircuitBreakerError(self)`
Reject(t) ==
    /\ pc[t] = "rejected"
    /\ pc' = [pc EXCEPT ![t] = "idle"]
    /\ result' = [result EXCEPT ![t] = CircuitBreakerError]
    /\ UNCHANGED <<xvars, began, now, bvars, cvars, op, cur, tmp, outcome, invoked, gate,
                   streak>>

\* func returns v: call() goes on to self.__success()
FuncReturns(t, v) ==
    /\ pc[t] = "running"
    /\ outcome' = [outcome EXCEPT ![t] = Returned(v)]
    /\ pc' = [pc EXCEPT ![t] = "close"]
    /\ streak' = [streak EXCEPT ![cur[t]] = 0]
    /\ began' = [began EXCEPT ![t] = now]
    /\ UNCHANGED <<xvars, now, bvars, cvars, op, cur, tmp, result, invoked, gate>>

\* the threads that are inside `self._failure_count += 1` of breaker b
Incrementing(b) ==
    {u \in Threads : cur[u] = b /\ pc[u] \in {"failure", "failure_store"}}

\* the largest count of breaker b that is stored or loaded for an increment
HighestCount(b) ==
    LET S == {failure_count[b]} \cup
             {tmp[u] : u \in {x \in Incrementing(b) : pc[x] = "failure_store"}}
    IN CHOOSE m \in S : \A x \in S : x <= m

\* the count of breaker b can still be raised within MaxFailures
CanCount(b) == HighestCount(b) + Cardinality(Incrementing(b)) < MaxFailures

\* func raises e: the except clause takes it, or it leaves call() untouched
FuncRaises(t, e) ==
    /\ pc[t] = "running"
    /\ outcome' = [outcome EXCEPT ![t] = Raises(e)]
    /\ IF handles(cur[t], e)
       THEN /\ CanCount(cur[t])
            /\ streak[cur[t]] < MaxFailures
            /\ pc' = [pc EXCEPT ![t] = "failure"]
            /\ streak' = [streak EXCEPT ![cur[t]] = @ + 1]
            /\ began' = [began EXCEPT ![t] = now]
            /\ UNCHANGED result
       ELSE /\ pc' = [pc EXCEPT ![t] = "idle"]
            /\ result' = [result EXCEPT ![t] = Raises(e)]
            /\ UNCHANGED <<streak, began>>
    /\ UNCHANGED <<xvars, now, bvars, cvars, op, cur, tmp, invoked, gate>>

\* __failure(): `self._failure_count += 1`, the load
FailureLoad(t) ==
    /\ pc[t] = "failure"
    /\ tmp' = [tmp EXCEPT ![t] = failure_count[cur[t]]]
    /\ pc' = [pc EXCEPT ![t] = "failure_store"]
    /\ UNCHANGED <<xvars, began, now, bvars, cvars, op, cur, outcome, result, invoked, gate,
                   streak>>

\* (mutation) the increment is dropped
FailureStoreLost(t) ==
    /\ pc[t] = "failure_store"
    /\ failure_count' = [failure_count EXCEPT ![cur[t]] = tmp[t]]
    /\ tmp' = [tmp EXCEPT ![t] = 0]
    /\ pc' = [pc EXCEPT ![t] = "failure_check"]
    /\ UNCHANGED <<xvars, began, now, state, opened, cvars, op, cur, outcome, result,
                   invoked, gate, streak>>

\* __failure(): `self._failure_count += 1`, the store
FailureStore(t) ==
    /\ pc[t] = "failure_store"
    /\ failure_count' = [failure_count EXCEPT ![cur[t]] = tmp[t] + 1]
    /\ tmp' = [tmp EXCEPT ![t] = 0]
    /\ pc' = [pc EXCEPT ![t] = "failure_check"]
    /\ UNCHANGED <<xvars, began, now, state, opened, cvars, op, cur, outcome, result,
                   invoked, gate, streak>>

\* (mutation) the threshold must be exceeded
threshold_exceeded(b) == failure_count[b] > failure_threshold[b]

\* __failure(): `if self._failure_count >= self._failure_threshold`
threshold_reached(b) == failure_count[b] >= failure_threshold[b]

FailureCheck(t) ==
    /\ pc[t] = "failure_check"
    /\ pc' = [pc EXCEPT ![t] =
                IF threshold_reached(cur[t]) THEN "open" ELSE "reraise"]
    /\ UNCHANGED <<xvars, began, now, bvars, cvars, op, cur, tmp, outcome, result, invoked,
                   gate, streak>>

\* open(): `self._state = STATE_OPEN`
OpenState(t) ==
    /\ pc[t] = "open"
    /\ state' = [state EXCEPT ![cur[t]] = STATE_OPEN]
    /\ pc' = [pc EXCEPT ![t] = "open_clock"]
    /\ UNCHANGED <<xvars, began, now, failure_count, opened, cvars, op, cur, tmp,
                   outcome, result, invoked, gate, streak>>

\* open(): the call of datetime.utcnow() in `self._opened = datetime.utcnow()`
OpenClock(t) ==
    /\ pc[t] = "open_clock"
    /\ tmp' = [tmp EXCEPT ![t] = now]
    /\ pc' = [pc EXCEPT ![t] = "open_stamp"]
    /\ UNCHANGED <<xvars, began, now, bvars, cvars, op, cur, outcome, result,
                   invoked, gate, streak>>

\* (mutation) open() keeps the old timestamp
OpenStampStale(t) ==
    /\ pc[t] = "open_stamp"
    /\ tmp' = [tmp EXCEPT ![t] = 0]
    /\ pc' = [pc EXCEPT ![t] = IF op[t] = "call" THEN "reraise" ELSE "idle"]
    /\ began' = [began EXCEPT ![t] = IF op[t] = "call" THEN @ ELSE 0]
    /\ UNCHANGED <<xvars, now, bvars, cvars, op, cur, outcome, result, invoked,
                   gate, streak>>

\* open(): the store of `self._opened = datetime.utcnow()`, then back to the
\* caller
OpenStamp(t) ==
    /\ pc[t] = "open_stamp"
    /\ opened' = [opened EXCEPT ![cur[t]] = tmp[t]]
    /\ tmp' = [tmp EXCEPT ![t] = 0]
    /\ pc' = [pc EXCEPT ![t] = IF op[t] = "call" THEN "reraise" ELSE "idle"]
    /\ began' = [began EXCEPT ![t] = IF op[t] = "call" THEN @ ELSE 0]
    /\ UNCHANGED <<xvars, now, state, failure_count, cvars, op, cur, outcome,
                   result, invoked, gate, streak>>

\* (mutation) a tripped breaker reports itself instead of the failure
ReraiseBreakerError(t) ==
    /\ pc[t] = "reraise"
    /\ result' = [result EXCEPT ![t] =
                    IF state[cur[t]] = STATE_OPEN THEN CircuitBreakerError
                    ELSE outcome[t]]
    /\ pc' = [pc EXCEPT ![t] = "idle"]
    /\ began' = [began EXCEPT ![t] = 0]
    /\ UNCHANGED <<xvars, now, bvars, cvars, op, cur, tmp, outcome, invoked, gate,
                   streak>>

\* call(): the bare `raise` of the except clause
Reraise(t) ==
    /\ pc[t] = "reraise"
    /\ result' = [result EXCEPT ![t] = outcome[t]]
    /\ pc' = [pc EXCEPT ![t] = "idle"]
    /\ began' = [began EXCEPT ![t] = 0]
    /\ UNCHANGED <<xvars, now, bvars, cvars, op, cur, tmp, outcome, invoked, gate,
                   streak>>

\* close(): `self._state = STATE_CLOSED`
CloseState(t) ==
    /\ pc[t] = "close"
    /\ state' = [state EXCEPT ![cur[t]] = STATE_CLOSED]
    /\ pc' = [pc EXCEPT ![t] = "close_count"]
    /\ UNCHANGED <<xvars, began, now, failure_count, opened, cvars, op, cur, tmp, outcome,
                   result, invoked, gate, streak>>

\* (mutation) close() keeps the failure count
CloseCountKept(t) ==
    /\ pc[t] = "close_count"
    /\ pc' = [pc EXCEPT ![t] = IF op[t] = "call" THEN "return" ELSE "idle"]
    /\ began' = [began EXCEPT ![t] = IF op[t] = "call" THEN @ ELSE 0]
    /\ UNCHANGED <<xvars, now, bvars, cvars, op, cur, tmp, outcome, result, invoked,
                   gate, streak>>

\* close(): `self._failure_count = 0`, then back to the caller
CloseCount(t) ==
    /\ pc[t] = "close_count"
    /\ failure_count' = [failure_count EXCEPT ![cur[t]] = 0]
    /\ pc' = [pc EXCEPT ![t] = IF op[t] = "call" THEN "return" ELSE "idle"]
    /\ began' = [began EXCEPT ![t] = IF op[t] = "call" THEN @ ELSE 0]
    /\ UNCHANGED <<xvars, now, state, opened, cvars, op, cur, tmp, outcome, result,
                   invoked, gate, streak>>

\* call(): `return result`
Return(t) ==
    /\ pc[t] = "return"
    /\ result' = [result EXCEPT ![t] = outcome[t]]
    /\ pc' = [pc EXCEPT ![t] = "idle"]
    /\ began' = [began EXCEPT ![t] = 0]
    /\ UNCHANGED <<xvars, now, bvars, cvars, op, cur, tmp, outcome, invoked, gate,
                   streak>>

\* a caller enters the public open()
ForceOpen(t, b) ==
    /\ pc[t] = "idle"
    /\ pc' = [pc EXCEPT ![t] = "open"]
    /\ op' = [op EXCEPT ![t] = "open"]
    /\ cur' = [cur EXCEPT ![t] = b]
    /\ gate' = [gate EXCEPT ![t] = "none"]
    /\ outcome' = [outcome EXCEPT ![t] = None]
    /\ result' = [result EXCEPT ![t] = None]
    /\ invoked' = [invoked EXCEPT ![t] = FALSE]
    /\ force_opened' = [force_opened EXCEPT ![b] = TRUE]
    /\ began' = [began EXCEPT ![t] = now]
    /\ UNCHANGED <<name, circuit_breakers, last_registered, message>>
    /\ UNCHANGED <<now, bvars, cvars, tmp, streak>>

\* a caller enters the public close()
ForceClose(t, b) ==
    /\ pc[t] = "idle"
    /\ pc' = [pc EXCEPT ![t] = "close"]
    /\ op' = [op EXCEPT ![t] = "close"]
    /\ cur' = [cur EXCEPT ![t] = b]
    /\ gate' = [gate EXCEPT ![t] = "none"]
    /\ outcome' = [outcome EXCEPT ![t] = None]
    /\ result' = [result EXCEPT ![t] = None]
    /\ invoked' = [invoked EXCEPT ![t] = FALSE]
    /\ streak' = [streak EXCEPT ![b] = 0]
    /\ began' = [began EXCEPT ![t] = now]
    /\ UNCHANGED <<xvars, now, bvars, cvars, tmp>>

(* --------------------------- the registry ----------------------------- *)
\* (mutation) the first registration of a name is kept
register_first_wins(cb, k, b) ==
    IF cb[k] = Absent THEN [cb EXCEPT ![k] = b] ELSE cb

\* register: `cls.circuit_breakers[circuit_breaker.name] = circuit_breaker`
register(cb, k, b) == [cb EXCEPT ![k] = b]

\* get: `cls.circuit_breakers.get(name)`
get(k) == circuit_breakers[k]

\* get_circuits: the values of the dictionary
get_circuits == {circuit_breakers[k] : k \in Keys} \ {Absent}

\* get_open: `if circuit.state is STATE_OPEN`
get_open == {b \in get_circuits : state[b] = STATE_OPEN}

\* (mutation) only breakers in the closed state are listed
get_closed_strict == {b \in get_circuits : state[b] = STATE_CLOSED}

\* get_closed: `if circuit.state is not STATE_OPEN`
get_closed == {b \in get_circuits : state[b] # STATE_OPEN}

\* all_closed: `if list(cls.get_open()): return False`
all_closed == IF get_open # {} THEN FALSE ELSE TRUE

\* CircuitBreakerMonitor.register(b)
Register(b) ==
    /\ circuit_breakers' = register(circuit_breakers, name[b], b)
    /\ last_registered' = [last_registered EXCEPT ![name[b]] = b]
    /\ UNCHANGED <<now, bvars, cvars, tvars, streak, name, message,
                   force_opened>>

\* __call__(wrapped): the name defaults to wrapped.__name__, then register
Decorate(b, w) ==
    LET n == IF name[b] = NoName THEN w ELSE name[b] IN
    /\ name' = [name EXCEPT ![b] = n]
    /\ circuit_breakers' = register(circuit_breakers, n, b)
    /\ last_registered' = [last_registered EXCEPT ![n] = b]
    /\ UNCHANGED <<now, bvars, cvars, tvars, streak, message, force_opened>>

(* ---------------------------- the error ------------------------------- *)
\* CircuitBreakerError.__init__: the attributes the error object has
ErrorAttrs == {"_circuit_breaker"}

\* CircuitBreakerError.__str__: the attributes of self it reads, in order
StrReads == <<"_circuit_breaker", "_circuiit_breaker", "_circuit_breaker",
              "_circuit_breaker">>

\* CircuitBreakerError.__str__ for the error of breaker b
error_str(b) ==
    IF \E i \in DOMAIN StrReads : StrReads[i] \notin ErrorAttrs
    THEN Raises("AttributeError")
    ELSE Returned(<<name[b], open_until(b), failure_count[b],
                    open_remaining(b)>>)

\* the caller of a rejected call renders the error it got
Render(t) ==
    /\ pc[t] = "idle"
    /\ result[t] = CircuitBreakerError
    /\ message' = [message EXCEPT ![t] = error_str(cur[t])]
    /\ UNCHANGED <<now, bvars, cvars, tvars, streak, name, circuit_breakers,
                   last_registered, force_opened>>

(* ------------------------- specifications ----------------------------- *)
\* one caller, operations one at a time
Next ==
    \/ Tick
    \/ \E t \in SeqThreads, b \in Guarded : Call(t, b)
    \/ \E t \in SeqThreads : Reject(t)
    \/ \E t \in SeqThreads, v \in Values : FuncReturns(t, v)
    \/ \E t \in SeqThreads, e \in Raised : FuncRaises(t, e)
    \/ \E t \in SeqThreads : FailureLoad(t)
    \/ \E t \in SeqThreads : FailureStore(t)
    \/ \E t \in SeqThreads : FailureCheck(t)
    \/ \E t \in SeqThreads : OpenState(t)
    \/ \E t \in SeqThreads : OpenClock(t)
    \/ \E t \in SeqThreads : OpenStamp(t)
    \/ \E t \in SeqThreads : Reraise(t)
    \/ \E t \in SeqThreads : CloseState(t)
    \/ \E t \in SeqThreads : CloseCount(t)
    \/ \E t \in SeqThreads : Return(t)
    \/ \E t \in SeqThreads, b \in Guarded : ForceOpen(t, b)
    \/ \E t \in SeqThreads, b \in Guarded : ForceClose(t, b)

Spec == Init /\ [][Next]_vars

\* the clock of the specifications with short timeouts runs as far as the
\* longest of them
ConcTick == now < MaxTimeout /\ Tick

\* the breaker of the burst: any threshold, a timeout the clock can reach
InitBurst ==
    /\ Init
    /\ \A b \in Guarded : recover_timeout[b] \in 0 .. MaxTimeout

\* every thread makes one call on the guarded breaker, its gating check
\* line by line, and its function raises an exception the breaker expects,
\* while the clock runs
BurstCall(t, b) == op[t] = "none" /\ GateTest(t, b)

BurstRaises(t, e) == handles(cur[t], e) /\ FuncRaises(t, e)

NextBurst ==
    \/ ConcTick
    \/ \E t \in Threads, b \in Guarded : BurstCall(t, b)
    \/ \E t \in Threads : GateOpened(t)
    \/ \E t \in Threads : GateClock(t)
    \/ \E t \in Threads : GateHalfOpen(t)
    \/ \E t \in Threads : GateReturn(t)
    \/ \E t \in Threads : Reject(t)
    \/ \E t \in Threads, e \in Raised : BurstRaises(t, e)
    \/ \E t \in Threads : FailureLoad(t)
    \/ \E t \in Threads : FailureStore(t)
    \/ \E t \in Threads : FailureCheck(t)
    \/ \E t \in Threads : OpenState(t)
    \/ \E t \in Threads : OpenClock(t)
    \/ \E t \in Threads : OpenStamp(t)
    \/ \E t \in Threads : Reraise(t)

SpecBurst == InitBurst /\ [][NextBurst]_vars

\* one caller that also renders the errors it gets
NextErr ==
    \/ Next
    \/ \E t \in SeqThreads : Render(t)

SpecErr == Init /\ [][NextErr]_vars

\* one caller that keeps calling while the clock keeps advancing; open() is
\* only used before the clock has moved and close() is never used
EarlyForceOpen(t, b) == now = 0 /\ ForceOpen(t, b)

CallerStep ==
    \/ \E t \in SeqThreads, b \in Guarded : Call(t, b)
    \/ \E t \in SeqThreads : Reject(t)
    \/ \E t \in SeqThreads, v \in Values : FuncReturns(t, v)
    \/ \E t \in SeqThreads, e \in Raised : FuncRaises(t, e)
    \/ \E t \in SeqThreads : FailureLoad(t)
    \/ \E t \in SeqThreads : FailureStore(t)
    \/ \E t \in SeqThreads : FailureCheck(t)
    \/ \E t \in SeqThreads : OpenState(t)
    \/ \E t \in SeqThreads : OpenClock(t)
    \/ \E t \in SeqThreads : OpenStamp(t)
    \/ \E t \in SeqThreads : Reraise(t)
    \/ \E t \in SeqThreads : CloseState(t)
    \/ \E t \in SeqThreads : CloseCount(t)
    \/ \E t \in SeqThreads : Return(t)

NextLive ==
    \/ Tick
    \/ CallerStep
    \/ \E t \in SeqThreads, b \in Guarded : EarlyForceOpen(t, b)

SpecLive ==
    /\ Init
    /\ [][NextLive]_vars
    /\ SF_vars(Tick)
    /\ WF_vars(CallerStep)

\* two callers share the guarded breaker, built with threshold 1 or 2 and
\* a positive recovery timeout and expecting every exception; their steps
\* interleave line by line, the gating check included, and either may
\* close the breaker by hand
InitConc ==
    /\ Init
    /\ \A b \in Guarded :
         /\ failure_threshold[b] \in {1, 2}
         /\ recover_timeout[b] = MaxTimeout
         /\ expected_exception[b] = DefaultExpected

NextConc ==
    \/ ConcTick
    \/ \E t \in ConcThreads, b \in Guarded : GateTest(t, b)
    \/ \E t \in ConcThreads : GateOpened(t)
    \/ \E t \in ConcThreads : GateClock(t)
    \/ \E t \in ConcThreads : GateHalfOpen(t)
    \/ \E t \in ConcThreads : GateReturn(t)
    \/ \E t \in ConcThreads : Reject(t)
    \/ \E t \in ConcThreads, v \in Values : FuncReturns(t, v)
    \/ \E t \in ConcThreads, e \in Raised : FuncRaises(t, e)
    \/ \E t \in ConcThreads : FailureLoad(t)
    \/ \E t \in ConcThreads : FailureStore(t)
    \/ \E t \in ConcThreads : FailureCheck(t)
    \/ \E t \in ConcThreads : OpenState(t)
    \/ \E t \in ConcThreads : OpenClock(t)
    \/ \E t \in ConcThreads : OpenStamp(t)
    \/ \E t \in ConcThreads : Reraise(t)
    \/ \E t \in ConcThreads : CloseState(t)
    \/ \E t \in ConcThreads : CloseCount(t)
    \/ \E t \in ConcThreads : Return(t)
    \/ \E t \in ConcThreads, b \in Guarded : ForceClose(t, b)

SpecConc == InitConc /\ [][NextConc]_vars

\* the registry: every breaker is built with the default threshold, a
\* recovery timeout that is over at once or outlasts the run, and any name;
\* one caller registers, decorates, calls functions that return, and opens
\* and closes the breakers by hand
InitReg ==
    /\ now = 0
    /\ state = [b \in Breakers |-> STATE_CLOSED]
    /\ failure_count = [b \in Breakers |-> 0]
    /\ opened = [b \in Breakers |-> 0]
    /\ failure_threshold = [b \in Breakers |-> DefaultThreshold]
    /\ \E rt \in {0, DefaultTimeout} :
         recover_timeout = [b \in Breakers |-> rt]
    /\ expected_exception = [b \in Breakers |-> DefaultExpected]
    /\ pc = [t \in Threads |-> "idle"]
    /\ op = [t \in Threads |-> "none"]
    /\ cur = [t \in Threads |-> 1]
    /\ tmp = [t \in Threads |-> 0]
    /\ outcome = [t \in Threads |-> None]
    /\ result = [t \in Threads |-> None]
    /\ invoked = [t \in Threads |-> FALSE]
    /\ gate = [t \in Threads |-> "none"]
    /\ streak = [b \in Breakers |-> 0]
    /\ name \in [Breakers -> Keys]
    /\ circuit_breakers = [k \in Keys |-> Absent]
    /\ last_registered = [k \in Keys |-> Absent]
    /\ message = [t \in Threads |-> None]
    /\ force_opened = [b \in Breakers |-> FALSE]
    /\ began = [t \in Threads |-> 0]

NextReg ==
    \/ \E b \in Breakers : Register(b)
    \/ \E b \in Breakers, w \in Names : Decorate(b, w)
    \/ \E t \in SeqThreads, b \in Breakers : Call(t, b)
    \/ \E t \in SeqThreads : Reject(t)
    \/ \E t \in SeqThreads, v \in Values : FuncReturns(t, v)
    \/ \E t \in SeqThreads : OpenState(t)
    \/ \E t \in SeqThreads : OpenClock(t)
    \/ \E t \in SeqThreads : OpenStamp(t)
    \/ \E t \in SeqThreads : CloseState(t)
    \/ \E t \in SeqThreads : CloseCount(t)
    \/ \E t \in SeqThreads : Return(t)
    \/ \E t \in SeqThreads, b \in Breakers : ForceOpen(t, b)
    \/ \E t \in SeqThreads, b \in Breakers : ForceClose(t, b)

SpecReg == InitReg /\ [][NextReg]_vars

\* one caller of a guarded breaker that is named and registered along the
\* way: threshold 1 or 2, a positive recovery timeout the clock can reach,
\* any expected exception; calls return, fail and get rejected in every
\* state of the breaker while the clock runs
InitCalls ==
    /\ Init
    /\ \A b \in Guarded :
         /\ failure_threshold[b] \in {1, 2}
         /\ recover_timeout[b] \in 1 .. MaxTimeout

NextCalls ==
    \/ ConcTick
    \/ CallerStep
    \/ \E t \in SeqThreads, b \in Guarded : ForceOpen(t, b)
    \/ \E t \in SeqThreads, b \in Guarded : ForceClose(t, b)
    \/ \E b \in Guarded : Register(b)
    \/ \E b \in Guarded, w \in Names : Decorate(b, w)

SpecCalls == InitCalls /\ [][NextCalls]_vars

(* ------------------------------ claims -------------------------------- *)
\* an exception the breaker b is configured to count
Classified(b, x) == x.kind = "raise" /\ isinstance(x.val, expected_exception[b])

\* C1: a call made while the breaker is Open and the recovery timeout has
\* not elapsed is answered with CircuitBreakerError and never runs the
\* wrapped function.
C1_RejectedWhileOpen ==
    \A t \in Threads :
        gate[t] = "open_waiting" =>
            /\ ~invoked[t]
            /\ pc[t] \in {"rejected", "idle"}
            /\ pc[t] = "idle" => result[t] = CircuitBreakerError

C1_Witness ==
    \E t \in Threads :
        /\ gate[t] = "open_waiting" /\ pc[t] = "idle"
        /\ result[t] = CircuitBreakerError /\ ~invoked[t]
        /\ failure_count[cur[t]] >= failure_threshold[cur[t]]

\* C2: on a breaker with a positive threshold T, when the exception of a
\* call admitted in Closed has been recorded, the breaker is Open exactly
\* if this was the T-th classified failure in a row, with openedAt the time
\* of that failure (a clock reading taken between the function's raise and
\* the re-raise), and is still Closed after fewer than T.
C2_TripsAtThreshold ==
    \A t \in Threads :
        LET b == cur[t] IN
        (pc[t] = "reraise" /\ gate[t] = "closed" /\ failure_threshold[b] > 0) =>
            IF streak[b] < failure_threshold[b]
            THEN state[b] = STATE_CLOSED
            ELSE /\ streak[b] = failure_threshold[b]
                 /\ state[b] = STATE_OPEN
                 /\ opened[b] \in began[t] .. now

C2_Witness ==
    \E t \in Threads :
        LET b == cur[t] IN
        /\ pc[t] = "reraise" /\ gate[t] = "closed"
        /\ failure_threshold[b] = 3 /\ streak[b] = 3
        /\ state[b] = STATE_OPEN /\ began[t] > 0 /\ opened[b] = began[t]

\* C3: a call made while the breaker is Open and the recovery timeout has
\* elapsed is admitted, and the breaker is HalfOpen while the wrapped
\* function runs.
C3_TrialAdmitted ==
    \A t \in Threads :
        gate[t] = "open_elapsed" =>
            /\ invoked[t]
            /\ pc[t] # "rejected"
            /\ result[t] # CircuitBreakerError
            /\ pc[t] = "running" => state[cur[t]] = STATE_HALF_OPEN

C3_Witness ==
    \E t \in Threads :
        /\ gate[t] = "open_elapsed" /\ pc[t] = "running" /\ invoked[t]
        /\ state[cur[t]] = STATE_HALF_OPEN
        /\ now = open_until(cur[t]) /\ recover_timeout[cur[t]] > 0

\* C4 (as claimed): when the classified failure of a trial call has been
\* recorded, the breaker is Open with openedAt the time of that failure,
\* whatever the failure count and the threshold.
C4_TrialFailureReopens ==
    \A t \in Threads :
        (pc[t] = "reraise" /\ gate[t] = "open_elapsed") =>
            /\ state[cur[t]] = STATE_OPEN
            /\ opened[cur[t]] \in began[t] .. now

\* C5: a trial call whose function returns leaves the breaker Closed with
\* failure count 0.
C5_TrialSuccessCloses ==
    \A t \in Threads :
        (pc[t] = "idle" /\ gate[t] = "open_elapsed" /\ result[t].kind = "return") =>
            /\ state[cur[t]] = STATE_CLOSED
            /\ failure_count[cur[t]] = 0

\* threshold 3, timeout 10: tripped at t, the call at t + 11 returned
C5_Witness ==
    \E t \in Threads :
        LET b == cur[t] IN
        /\ pc[t] = "idle" /\ gate[t] = "open_elapsed" /\ result[t].kind = "return"
        /\ failure_threshold[b] = 3 /\ recover_timeout[b] = ScenarioTimeout
        /\ now = opened[b] + ScenarioTimeout + 1
        /\ state[b] = STATE_CLOSED /\ failure_count[b] = 0

\* C6 (as claimed): a call is rejected only if the breaker was Open with the
\* recovery timeout not yet elapsed when the call checked it.
C6_RejectsOnlyWhileOpen ==
    \A t \in Threads :
        (pc[t] = "rejected" \/ result[t] = CircuitBreakerError) =>
            gate[t] = "open_waiting"

\* C7: when the wrapped function raises an exception the breaker does not
\* expect, the call ends at once with that exception and the failure count,
\* the state and openedAt are as they were.
C7_UnclassifiedPassesThrough ==
    [][\A t \in Threads :
         (/\ pc[t] = "running"
          /\ outcome'[t].kind = "raise"
          /\ ~isinstance(outcome'[t].val, expected_exception[cur[t]])) =>
            /\ pc'[t] = "idle"
            /\ result'[t] = outcome'[t]
            /\ failure_count' = failure_count
            /\ state' = state
            /\ opened' = opened]_vars

C7_Witness ==
    \E t \in Threads :
        LET b == cur[t] IN
        /\ pc[t] = "idle" /\ op[t] = "call" /\ invoked[t]
        /\ result[t] = Raises("ValueError") /\ expected_exception[b] = "IOError"
        /\ state[b] = STATE_CLOSED /\ failure_count[b] > 0

\* C8: close() leaves the breaker Closed with failure count 0; open() leaves
\* it Open with openedAt the time of the open() (a clock reading taken while
\* it ran) and the failure count untouched, and calls are then refused until
\* the recovery timeout has elapsed.
C8_AdminState ==
    \A t \in Threads :
        LET b == cur[t] IN
        /\ (pc[t] = "idle" /\ op[t] = "close") =>
              state[b] = STATE_CLOSED /\ failure_count[b] = 0
        /\ (pc[t] = "idle" /\ op[t] = "open") =>
              /\ state[b] = STATE_OPEN
              /\ now < opened[b] + recover_timeout[b] => ~is_closed(b)

C8_AdminStep ==
    \A t \in Threads :
        /\ op'[t] = "open" => failure_count' = failure_count
        /\ (op[t] = "open" /\ pc[t] # "idle" /\ pc'[t] = "idle") =>
              opened'[cur[t]] \in began[t] .. now'

C8_ForceOpenForceClose == []C8_AdminState /\ [][C8_AdminStep]_vars

C8_Witness ==
    \E t \in Threads :
        LET b == cur[t] IN
        /\ pc[t] = "idle" /\ op[t] = "open"
        /\ state[b] = STATE_OPEN /\ opened[b] > 0
        /\ failure_count[b] > 0 /\ failure_count[b] < failure_threshold[b]
        /\ now < open_until(b)

\* C9: the caller of an admitted call gets exactly what the wrapped function
\* produced, and a classified failure has been counted when it reaches the
\* caller.
C9_OutcomeUnchanged ==
    \A t \in Threads :
        (pc[t] = "idle" /\ op[t] = "call" /\ invoked[t]) =>
            /\ outcome[t] # None
            /\ result[t] = outcome[t]
            /\ Classified(cur[t], outcome[t]) =>
                  /\ failure_count[cur[t]] >= 1
                  /\ failure_count[cur[t]] = streak[cur[t]]

C9_Witness ==
    \E t \in Threads :
        LET b == cur[t] IN
        /\ pc[t] = "idle" /\ op[t] = "call" /\ invoked[t] /\ gate[t] = "closed"
        /\ result[t] = Raises("IOError") /\ state[b] = STATE_OPEN
        /\ failure_count[b] = failure_threshold[b]

\* C10 (as claimed): when every thread has made one call on the fresh
\* breaker that was admitted while it was Closed, and every call failed with
\* a classified failure, the failure count is the number of threads, and the
\* breaker is Open if that reaches the threshold.
C10_NoLostUpdate ==
    (\A t \in Threads :
        /\ pc[t] = "idle" /\ invoked[t] /\ gate[t] = "closed"
        /\ Classified(cur[t], result[t])) =>
        \A b \in Guarded :
            /\ failure_count[b] = NThreads
            /\ NThreads >= failure_threshold[b] => state[b] = STATE_OPEN

\* C11: all_closed() is false exactly when some registered breaker is Open
\* (HalfOpen counts as closed), and get_open() / get_closed() split the
\* registered breakers in two, get_open() holding those whose state is Open.
C11_RegistryHealth ==
    LET registered == {b \in Breakers :
                          \E k \in Keys : circuit_breakers[k] = b} IN
    /\ (all_closed = FALSE) <=>
          (\E b \in registered : state[b] = STATE_OPEN)
    /\ get_open \cup get_closed = registered
    /\ get_open \cap get_closed = {}
    /\ \A b \in registered : b \in get_open <=> state[b] = STATE_OPEN

C11_Witness ==
    \E b, c \in get_circuits :
        /\ state[b] = STATE_OPEN /\ state[c] = STATE_HALF_OPEN
        /\ all_closed = FALSE /\ b \in get_open /\ c \in get_closed

\* C12: get(name) answers the breaker registered under that name last, and
\* the absent result for a name nothing was registered under; a name that is
\* in the registry stays in it.
C12_LastWins == \A k \in Keys : get(k) = last_registered[k]

C12_NoRemoval == \A k \in Keys : get(k) # Absent => get(k)' # Absent

C12_RegisterGet == []C12_LastWins /\ [][C12_NoRemoval]_vars

\* breaker 1 was registered unnamed and as "f", then breaker 2 as "f"
C12_Witness ==
    /\ get(NoName) = 1 /\ name[1] = "f" /\ name[2] = "f"
    /\ get("f") = 2 /\ get("g") = Absent

\* C13 (as claimed): a breaker that has received a call has a positive
\* failure threshold and a positive recovery timeout.
C13_ValidatedConfig ==
    \A t \in Threads :
        op[t] = "call" =>
            /\ failure_threshold[cur[t]] > 0
            /\ recover_timeout[cur[t]] > 0

\* C14 (as claimed): rendering the error of a rejected call yields the
\* breaker's name, open-until time, failure count and remaining seconds.
C14_ErrorRenders ==
    \A t \in Threads :
        message[t] # None =>
            /\ message[t].kind = "return"
            /\ message[t].val[1] = name[cur[t]]
            /\ message[t].val[2] = open_until(cur[t])
            /\ message[t].val[3] = failure_count[cur[t]]

\* C15: a step that rejects a call leaves state, failure count and openedAt
\* of every breaker as they were, and no step of a call changes a
\* threshold, a timeout, an expected exception, a name or the registry.
C15_RejectionStep ==
    \A t \in Threads :
        ((pc[t] = "idle" /\ pc'[t] = "rejected") \/ pc[t] = "rejected") =>
            /\ state' = state
            /\ failure_count' = failure_count
            /\ opened' = opened

C15_CallStep ==
    \A t \in Threads :
        (op'[t] = "call" /\ pc'[t] # pc[t]) =>
            /\ failure_threshold' = failure_threshold
            /\ recover_timeout' = recover_timeout
            /\ expected_exception' = expected_exception
            /\ name' = name
            /\ circuit_breakers' = circuit_breakers

C15_RejectionChangesNothing ==
    [][C15_RejectionStep]_vars /\ [][C15_CallStep]_vars

\* a named, registered breaker that re-opened after the clock had moved
\* and was then left half_open by a trial has rejected a call
C15_Witness ==
    \E t \in Threads :
        LET b == cur[t] IN
        /\ pc[t] = "idle" /\ result[t] = CircuitBreakerError
        /\ gate[t] = "half_open" /\ state[b] = STATE_HALF_OPEN
        /\ failure_count[b] > 0 /\ opened[b] > 0
        /\ get(name[b]) = b /\ name[b] # NoName

\* C16: between operations, a Closed breaker's failure count is the number
\* of classified failures since the last successful call, close() or
\* construction, and a successful call on a Closed breaker leaves it Closed
\* with failure count 0.
C16_CountsConsecutiveFailures ==
    (\A t \in Threads : pc[t] = "idle") =>
        /\ \A b \in Breakers :
              state[b] = STATE_CLOSED => failure_count[b] = streak[b]
        /\ \A t \in Threads :
              (gate[t] = "closed" /\ result[t].kind = "return") =>
                  /\ state[cur[t]] = STATE_CLOSED
                  /\ failure_count[cur[t]] = 0

\* two counted failures, then an exception the breaker does not expect
C16_Witness ==
    \E t \in Threads :
        LET b == cur[t] IN
        /\ pc[t] = "idle" /\ gate[t] = "closed"
        /\ result[t] = Raises("ValueError") /\ expected_exception[b] = "IOError"
        /\ state[b] = STATE_CLOSED
        /\ failure_count[b] = 2 /\ streak[b] = 2

\* C20: between operations, for a positive threshold T: Closed implies
\* failure count < T; and on a breaker open() was never called on, Open
\* implies failure count >= T and HalfOpen never has failure count < T.
C20_CountVersusThreshold ==
    (\A t \in Threads : pc[t] = "idle") =>
        \A b \in Breakers :
            failure_threshold[b] > 0 =>
                /\ state[b] = STATE_CLOSED =>
                      failure_count[b] < failure_threshold[b]
                /\ ~force_opened[b] =>
                      /\ state[b] = STATE_OPEN =>
                            failure_count[b] >= failure_threshold[b]
                      /\ state[b] = STATE_HALF_OPEN =>
                            failure_count[b] >= failure_threshold[b]

C20_Witness ==
    \E b \in Breakers :
        /\ \A t \in Threads : pc[t] = "idle"
        /\ ~force_opened[b] /\ state[b] = STATE_HALF_OPEN
        /\ failure_threshold[b] = 2 /\ failure_count[b] = 3

\* C17 (as claimed): when the clock keeps advancing and the caller keeps
\* calling, a rejected call is followed by a call that is admitted, unless
\* open() is used again first (for a breaker that is Open: provided its
\* recovery time lies within the clock's range).
C17_EventuallyAdmitted ==
    \A t \in SeqThreads :
        (/\ pc[t] = "rejected"
         /\ state[cur[t]] = STATE_OPEN => open_until(cur[t]) <= MaxTime)
            ~> (pc[t] = "running" \/ op[t] = "open")

\* C18 (as claimed): while a trial call is in flight, no other caller of
\* the same breaker is rejected for having found it half_open; every one of
\* them is admitted as a trial too
C18_EveryCallerIsTrial ==
    \A t, u \in ConcThreads :
        (/\ t # u
         /\ pc[t] = "running"
         /\ gate[t] = "open_elapsed"
         /\ state[cur[t]] = STATE_HALF_OPEN
         /\ cur[u] = cur[t]
         /\ op[u] = "call"
         /\ gate[u] = "half_open")
            => invoked[u]

\* C19: with concurrent callers an open breaker leaves OPEN only by the
\* gating check of a call made once the recovery timeout is over or by a
\* caller's close(); the completion of a call admitted before the breaker
\* opened does not move it out of OPEN
C19_StaysOpen ==
    [][\A b \in Guarded :
          (state[b] = STATE_OPEN /\ state'[b] # STATE_OPEN)
              => \/ \E t \in ConcThreads :
                      /\ cur[t] = b
                      /\ pc[t] = "half_opening"
                      /\ now >= open_until(b)
                 \/ \E t \in ConcThreads :
                      /\ cur[t] = b
                      /\ op[t] = "close"
                      /\ pc[t] = "close"]_vars

====
